---------------------------- MODULE Spec2Model ----------------------------
(***************************************************************************)
(* Model of the quiz backend in src/api/index.js: the row transformer      *)
(* (transformSheetDataToQuestions), the credential resolver                *)
(* (initializeGoogleSheets), the cache manager (getQuestions) and the      *)
(* request handlers that call them.                                        *)
(*                                                                         *)
(* A JavaScript string is a sequence of one-character strings, so that     *)
(* trim, toLowerCase, includes, isNaN and parseInt are computed and not    *)
(* assumed.  A JavaScript number that may be NaN is a record               *)
(* [nan |-> BOOLEAN, val |-> Int].                                         *)
(***************************************************************************)
EXTENDS Integers, Sequences, FiniteSets, TLC

VARIABLES
    isGoogleSheetsConfigured,  \* index.js:18
    questionsCache,            \* index.js:130
    lastCacheUpdate,           \* index.js:131
    clock,                     \* the value Date.now() returns
    env,                       \* SPREADSHEET_ID and the credential variables
    req,                       \* the requests in flight, one record per slot
    rows,                      \* argument of a direct transform call
    questions,                 \* its return value
    tpc                        \* position of the direct transform call

vars == <<isGoogleSheetsConfigured, questionsCache, lastCacheUpdate, clock,
          env, req, rows, questions, tpc>>

-----------------------------------------------------------------------------
(* JavaScript strings and numbers *)

Digits == <<"0", "1", "2", "3", "4", "5", "6", "7", "8", "9">>

Uppers == <<"A", "B", "C", "D", "E", "F", "G", "H", "I", "J", "K", "L", "M",
            "N", "O", "P", "Q", "R", "S", "T", "U", "V", "W", "X", "Y", "Z">>

Lowers == <<"a", "b", "c", "d", "e", "f", "g", "h", "i", "j", "k", "l", "m",
            "n", "o", "p", "q", "r", "s", "t", "u", "v", "w", "x", "y", "z">>

WhiteSpace == {" ", "\t", "\n"}

IsDigit(c) == \E i \in 1..10 : Digits[i] = c

DigitValue(c) == (CHOOSE i \in 1..10 : Digits[i] = c) - 1

\* String.prototype.toLowerCase, one character
LowerChar(c) ==
    IF \E i \in 1..26 : Uppers[i] = c
    THEN Lowers[CHOOSE i \in 1..26 : Uppers[i] = c]
    ELSE c

toLowerCase(s) == [i \in 1..Len(s) |-> LowerChar(s[i])]

\* String.prototype.trim
RECURSIVE TrimStart(_)
TrimStart(s) ==
    IF s # <<>> /\ Head(s) \in WhiteSpace THEN TrimStart(Tail(s)) ELSE s

RECURSIVE TrimEnd(_)
TrimEnd(s) ==
    IF s # <<>> /\ s[Len(s)] \in WhiteSpace
    THEN TrimEnd(SubSeq(s, 1, Len(s) - 1))
    ELSE s

trim(s) == TrimEnd(TrimStart(s))

\* String.prototype.includes
includes(s, sub) ==
    \E i \in 1..(Len(s) - Len(sub) + 1) : SubSeq(s, i, i + Len(sub) - 1) = sub

NaN == [nan |-> TRUE, val |-> 0]

Num(n) == [nan |-> FALSE, val |-> n]

AllDigits(s) == \A i \in 1..Len(s) : IsDigit(s[i])

\* DecimalDigits [. DecimalDigits] | . DecimalDigits
IsMantissa(m) ==
    LET dots == {i \in 1..Len(m) : m[i] = "."}
    IN  \/ dots = {} /\ m # <<>> /\ AllDigits(m)
        \/ \E p \in dots :
             /\ dots = {p}
             /\ AllDigits(SubSeq(m, 1, p - 1))
             /\ AllDigits(SubSeq(m, p + 1, Len(m)))
             /\ Len(m) > 1

StripSign(s) == IF s # <<>> /\ Head(s) \in {"+", "-"} THEN Tail(s) ELSE s

\* StrDecimalLiteral of the ECMAScript StringNumericLiteral grammar
IsStrDecimalLiteral(s) ==
    LET u  == StripSign(s)
        es == {i \in 1..Len(u) : u[i] \in {"e", "E"}}
    IN  \/ u = <<"I", "n", "f", "i", "n", "i", "t", "y">>
        \/ es = {} /\ IsMantissa(u)
        \/ \E p \in es :
             LET x == StripSign(SubSeq(u, p + 1, Len(u)))
             IN  /\ IsMantissa(SubSeq(u, 1, p - 1))
                 /\ x # <<>> /\ AllDigits(x)

\* 0x.., 0o.., 0b.. literals (no sign allowed)
IsNonDecimalLiteral(s) ==
    /\ Len(s) > 2
    /\ s[1] = "0"
    /\ LET body == SubSeq(s, 3, Len(s))
       IN  \/ /\ s[2] \in {"x", "X"}
              /\ \A i \in 1..Len(body) :
                   IsDigit(body[i]) \/ LowerChar(body[i]) \in {"a", "b", "c", "d", "e", "f"}
           \/ /\ s[2] \in {"o", "O"}
              /\ \A i \in 1..Len(body) : IsDigit(body[i]) /\ DigitValue(body[i]) < 8
           \/ /\ s[2] \in {"b", "B"}
              /\ \A i \in 1..Len(body) : body[i] \in {"0", "1"}

\* isNaN(string): Number(string) is NaN.  Number("") is 0.
isNaN(s) ==
    LET t == trim(s)
    IN  ~ (t = <<>> \/ IsStrDecimalLiteral(t) \/ IsNonDecimalLiteral(t))

RECURSIVE DigitsValue(_)
DigitsValue(s) ==
    IF s = <<>> THEN 0
    ELSE 10 * DigitsValue(SubSeq(s, 1, Len(s) - 1)) + DigitValue(s[Len(s)])

HexValue(c) ==
    IF IsDigit(c) THEN DigitValue(c)
    ELSE CHOOSE v \in 10..15 : Lowers[v - 9] = LowerChar(c)

IsHexDigit(c) == IsDigit(c) \/ LowerChar(c) \in {"a", "b", "c", "d", "e", "f"}

RECURSIVE HexDigitsValue(_)
HexDigitsValue(s) ==
    IF s = <<>> THEN 0
    ELSE 16 * HexDigitsValue(SubSeq(s, 1, Len(s) - 1)) + HexValue(s[Len(s)])

\* the longest prefix of decimal digits, of hexadecimal digits
RECURSIVE DigitPrefix(_)
DigitPrefix(s) ==
    IF s # <<>> /\ IsDigit(Head(s)) THEN <<Head(s)>> \o DigitPrefix(Tail(s)) ELSE <<>>

RECURSIVE HexPrefix(_)
HexPrefix(s) ==
    IF s # <<>> /\ IsHexDigit(Head(s)) THEN <<Head(s)>> \o HexPrefix(Tail(s)) ELSE <<>>

\* parseInt(string) with no radix: leading white space, a sign, an optional
\* 0x prefix, then the longest run of digits; NaN when that run is empty
parseInt(s) ==
    LET t    == TrimStart(s)
        sign == IF t # <<>> /\ Head(t) = "-" THEN -1 ELSE 1
        u    == StripSign(t)
        hex  == Len(u) >= 2 /\ u[1] = "0" /\ u[2] \in {"x", "X"}
        ds   == IF hex THEN HexPrefix(SubSeq(u, 3, Len(u)))
                ELSE DigitPrefix(u)
    IN  IF ds = <<>> THEN NaN
        ELSE Num(sign * (IF hex THEN HexDigitsValue(ds) ELSE DigitsValue(ds)))

\* the comparisons of JavaScript numbers: every comparison with NaN is false
JsGe(a, b) == ~a.nan /\ ~b.nan /\ a.val >= b.val
JsGt(a, b) == ~a.nan /\ ~b.nan /\ a.val > b.val
JsLt(a, b) == ~a.nan /\ ~b.nan /\ a.val < b.val

-----------------------------------------------------------------------------
(* Row Transformer: transformSheetDataToQuestions, index.js:67-126            *)
(* A grid is a sequence of rows, a row a sequence of cells, a cell a string.  *)
(* JavaScript indexes from 0: row[k] is row[k + 1] here, and is undefined     *)
(* (falsy) when the row has no more than k cells.                             *)

\* row[k] ? row[k].toString().trim() : ''
CellText(row, k) ==
    IF Len(row) > k /\ row[k + 1] # <<>> THEN trim(row[k + 1]) ELSE <<>>

\* the header test on the cell as written, without toLowerCase
StartIndexCaseSensitive(grid) ==
    IF /\ Len(grid) > 0
       /\ Len(grid[1]) > 0
       /\ grid[1][1] # <<>>
       /\ includes(grid[1][1], <<"q", "u", "e", "s", "t", "i", "o", "n">>)
    THEN 1 ELSE 0

\* index.js:69
StartIndex(grid) ==
    IF /\ Len(grid) > 0
       /\ Len(grid[1]) > 0
       /\ grid[1][1] # <<>>
       /\ includes(toLowerCase(grid[1][1]),
                   <<"q", "u", "e", "s", "t", "i", "o", "n">>)
    THEN 1 ELSE 0

\* index.js:75-80
Options(row) ==
    SelectSeq(<<CellText(row, 1), CellText(row, 2), CellText(row, 3), CellText(row, 4)>>,
              LAMBDA option : option # <<>>)

\* Array.prototype.findIndex with the predicate of index.js:88-90
FindIndex(options, value) ==
    LET hits == {j \in 1..Len(options) : toLowerCase(options[j]) = toLowerCase(value)}
    IN  IF hits = {} THEN -1
        ELSE (CHOOSE j \in hits : \A h \in hits : j <= h) - 1

\* index.js:82-92
CorrectAnswer(row) ==
    LET correctAnswerValue == CellText(row, 5)
    IN  IF ~isNaN(correctAnswerValue)
        THEN parseInt(correctAnswerValue)
        ELSE LET found == FindIndex(Options(row), correctAnswerValue)
             IN  IF found = -1 THEN Num(0) ELSE Num(found)

\* index.js:94-107
Weightage(row) ==
    IF Len(row) > 6 /\ row[7] # <<>>
    THEN LET difficultyOrWeightage == toLowerCase(trim(row[7]))
         IN  IF ~isNaN(difficultyOrWeightage)
             THEN parseInt(difficultyOrWeightage)
             ELSE CASE difficultyOrWeightage = <<"e", "a", "s", "y">> -> Num(5)
                    [] difficultyOrWeightage = <<"m", "e", "d", "i", "u", "m">> -> Num(10)
                    [] difficultyOrWeightage = <<"h", "a", "r", "d">> -> Num(20)
                    [] OTHER -> Num(10)
    ELSE Num(10)

\* Question with the id taken from the row's index in the whole grid
QuestionIdFromGridIndex(row, i, startIndex) ==
    [id            |-> i + 1,
     question      |-> CellText(row, 0),
     options       |-> Options(row),
     correctAnswer |-> CorrectAnswer(row),
     weightage     |-> Weightage(row)]

\* index.js:109-115, for the row at JavaScript index i
Question(row, i, startIndex) ==
    [id            |-> i - startIndex + 1,
     question      |-> CellText(row, 0),
     options       |-> Options(row),
     correctAnswer |-> CorrectAnswer(row),
     weightage     |-> Weightage(row)]

\* Retained without the check of the weightage
RetainedAnyWeightage(question) ==
    /\ question.question # <<>>
    /\ Len(question.options) >= 2
    /\ JsGe(question.correctAnswer, Num(0))
    /\ JsLt(question.correctAnswer, Num(Len(question.options)))

\* index.js:117-119
Retained(question) ==
    /\ question.question # <<>>
    /\ Len(question.options) >= 2
    /\ JsGe(question.correctAnswer, Num(0))
    /\ JsLt(question.correctAnswer, Num(Len(question.options)))
    /\ JsGt(question.weightage, Num(0))

\* the loop of index.js:71-123, from JavaScript index i on
RECURSIVE TransformLoop(_, _, _)
TransformLoop(grid, i, startIndex) ==
    IF i >= Len(grid) THEN <<>>
    ELSE LET row == grid[i + 1]
             q   == Question(row, i, startIndex)
         IN  (IF Len(row) >= 6 /\ Retained(q) THEN <<q>> ELSE <<>>)
             \o TransformLoop(grid, i + 1, startIndex)

transformSheetDataToQuestions(grid) ==
    TransformLoop(grid, StartIndex(grid), StartIndex(grid))

-----------------------------------------------------------------------------
(* The grids given to a direct call of the transformer *)

\* cell 0: the question text
QuestionCells ==
    {<<"Q", "1">>,
     <<>>,
     <<" ">>,
     <<" ", "Q", "2", " ">>,
     <<"Q", "u", "e", "s", "t", "i", "o", "n">>}

\* cells 1-4: the option cells
OptionCells ==
    {<<<<"A">>, <<"B">>, <<"C">>, <<"D">>>>,
     <<<<"A">>, <<>>, <<>>, <<"D">>>>,
     <<<<>>, <<>>, <<>>, <<"D">>>>,
     <<<<" ", "a", " ">>, <<"B">>, <<" ">>, <<"c">>>>,
     <<<<"1">>, <<"0">>, <<>>, <<>>>>}

\* cell 5: the correct answer
AnswerCells ==
    {<<"0">>,
     <<"1">>,
     <<"3">>,
     <<"4">>,
     <<"-", "1">>,
     <<>>,
     <<" ", "2">>,
     <<"C">>,
     <<"c">>,
     <<"d", " ">>,
     <<"x">>,
     <<"1", ".", "5">>,
     <<"1", "e", "1">>,
     <<"I", "n", "f", "i", "n", "i", "t", "y">>,
     <<"0", "x", "2">>}

\* cell 6: the weightage
WeightageCells ==
    {<<>>,
     <<" ">>,
     <<"7">>,
     <<"0">>,
     <<"-", "5">>,
     <<"e", "a", "s", "y">>,
     <<" ", "E", "a", "s", "y", " ">>,
     <<"M", "E", "D", "I", "U", "M">>,
     <<"h", "a", "r", "d">>,
     <<"f", "o", "o">>,
     <<"2", ".", "5">>,
     <<"0", ".", "5">>,
     <<"1", "e", "1">>}

\* the rows of 6 and of 7 cells over the cell pools
FullRows ==
    {<<q>> \o o \o <<a>> : q \in QuestionCells, o \in OptionCells, a \in AnswerCells}
    \cup {<<q>> \o o \o <<a, w>> :
            q \in QuestionCells, o \in OptionCells, a \in AnswerCells, w \in WeightageCells}

\* rows cut short of 6 cells
ShortRows ==
    {SubSeq(<<<<"Q", "1">>, <<"A">>, <<"B">>, <<"C">>, <<"D">>>>, 1, n) : n \in 0..5}

HeaderRow ==
    <<<<"Q", "u", "e", "s", "t", "i", "o", "n">>, <<"A">>, <<"B">>, <<"C">>, <<"D">>,
      <<"A", "n", "s", "w", "e", "r">>, <<"L", "e", "v", "e", "l">>>>

\* the rows that grids of several rows are made of
FewRows ==
    {HeaderRow,
     <<<<"Q", "1">>, <<"A">>, <<"B">>, <<"C">>, <<"D">>, <<"1">>, <<"e", "a", "s", "y">>>>,
     <<<<"Q", "2">>, <<"A">>, <<"B">>, <<"C">>, <<>>, <<"C">>, <<"7">>>>,
     <<<<"m", "y", " ", "Q", "U", "E", "S", "T", "I", "O", "N">>, <<"A">>, <<"B">>, <<>>, <<>>, <<"b">>>>,
     <<<<"Q", "3">>, <<"A">>, <<"B">>, <<"C">>, <<"D">>, <<"9">>>>,
     <<<<"Q", "4">>, <<"A">>, <<"B">>>>,
     <<>>}

MaxRows == 3

Grids ==
    {<<r>> : r \in FullRows \cup ShortRows}
    \cup UNION {[1..n -> FewRows] : n \in 0..MaxRows}

InitTransform ==
    /\ rows \in Grids
    /\ questions = <<>>
    /\ tpc = "call"
    /\ isGoogleSheetsConfigured = FALSE
    /\ questionsCache = <<>>
    /\ lastCacheUpdate = 0
    /\ clock = 0
    /\ env = [spreadsheetId |-> "absent", key |-> "absent", file |-> "absent"]
    /\ req = <<>>

\* a direct call transformSheetDataToQuestions(rows)
TransformCall ==
    /\ tpc = "call"
    /\ questions' = transformSheetDataToQuestions(rows)
    /\ tpc' = "done"
    /\ UNCHANGED <<isGoogleSheetsConfigured, questionsCache, lastCacheUpdate, clock,
                   env, req, rows>>

NextTransform == TransformCall

SpecTransform == InitTransform /\ [][NextTransform]_vars

-----------------------------------------------------------------------------
(* The server: credential resolver, cache manager, request handlers.          *)
(* Node runs a handler without interruption up to its next await; each action *)
(* below is one such run of one request.                                      *)

\* the request slots: two requests in flight
Req == {1, 2}

\* index.js:132
CACHE_DURATION == 5 * 60 * 1000

\* Date.now() when the process starts, the step of the clock and the number of
\* steps it takes
StartTime == CACHE_DURATION
TickMs == CACHE_DURATION \div 2
MaxTicks == 2

\* process.env as initializeGoogleSheets reads it (index.js:12, 23, 31, 38)
Envs ==
    [spreadsheetId : {"absent", "default", "set"},
     key           : {"absent", "unparseable", "valid"},
     file          : {"absent", "present"}]

\* what sheets.spreadsheets.values.get resolves to: response.data.values is
\* absent (hasValues = FALSE) or a grid
ValuesPool ==
    {<<>>,
     <<HeaderRow>>,
     <<HeaderRow,
       <<<<"Q", "1">>, <<"A">>, <<"B">>, <<"C">>, <<"D">>, <<"1">>, <<"e", "a", "s", "y">>>>,
       <<<<"Q", "2">>, <<"A">>, <<"B">>, <<"C">>, <<>>, <<"C">>, <<"7">>>>>>,
     <<<<<<"Q", "9">>, <<"A">>, <<"B">>, <<>>, <<>>, <<"b">>>>>>}

FetchResults ==
    {[ok |-> FALSE, hasValues |-> FALSE, values |-> <<>>],
     [ok |-> TRUE, hasValues |-> FALSE, values |-> <<>>]}
    \cup {[ok |-> TRUE, hasValues |-> TRUE, values |-> g] : g \in ValuesPool}

NoFetch == [ok |-> FALSE, hasValues |-> FALSE, values |-> <<>>]

NoResponse ==
    [status |-> 0, success |-> FALSE, questions |-> <<>>, warning |-> FALSE,
     message |-> ""]

\* a request slot: kind and pc are the handler and its position; arg is the text
\* of req.query.count or of req.params.id, empty when there is none; now is the
\* local of getQuestions; the other fields record what the request found (the
\* state of the cache before its handler ran) and did (auth: the credentials
\* its resolver call built the client from)
IdleReq ==
    [kind |-> "none", arg |-> <<>>, pc |-> "idle", now |-> 0, before |-> "none",
     served |-> FALSE, auth |-> "none",
     resolves |-> 0, fetches |-> 0, fetched |-> NoFetch,
     persisted |-> FALSE, resp |-> NoResponse]

\* a request takes the first free slot (the slots are interchangeable)
FirstIdle(r) ==
    /\ req[r].pc = "idle"
    /\ \A o \in Req : o < r => req[o].pc # "idle"

\* the cache states of the specification: Empty, Fresh, Stale
CacheState(cache, stamp, now) ==
    IF cache = <<>> THEN "Empty"
    ELSE IF now - stamp < CACHE_DURATION THEN "Fresh" ELSE "Stale"

\* index.js:137 with the comparison turned around
IsFreshTurned(cache, stamp, now) ==
    Len(cache) > 0 /\ (now - stamp) > CACHE_DURATION

\* index.js:137
IsFresh(cache, stamp, now) ==
    Len(cache) > 0 /\ (now - stamp) < CACHE_DURATION

\* the synchronous part of initializeGoogleSheets, index.js:21-52 and 59-63:
\* "return" (23-26, 44-47), "throw" (JSON.parse at 33 throws, caught at 59) or
\* "await" (the verification call of 52 is issued)
InitSync(e) ==
    IF e.spreadsheetId \in {"absent", "default"} THEN "return"
    ELSE IF e.key # "absent"
         THEN (IF e.key = "valid" THEN "await" ELSE "throw")
         ELSE IF e.file = "present" THEN "await" ELSE "return"

\* the credentials taken from the file path before the inline payload
AuthSourceFileFirst(e) ==
    IF e.spreadsheetId \in {"absent", "default"} THEN "none"
    ELSE IF e.file = "present" THEN "file"
         ELSE IF e.key = "valid" THEN "key" ELSE "none"

\* the credentials the client of index.js:49 is built from, index.js:23-47
AuthSource(e) ==
    IF e.spreadsheetId \in {"absent", "default"} THEN "none"
    ELSE IF e.key # "absent"
         THEN (IF e.key = "valid" THEN "key" ELSE "none")
         ELSE IF e.file = "present" THEN "file" ELSE "none"

\* index.js:164
NoSourceMessage == "Google Sheets not configured and no cached questions available"

\* index.js:184-189
QuestionsResponse(qs) ==
    [status |-> 200, success |-> TRUE, questions |-> qs, warning |-> FALSE,
     message |-> ""]

\* an error answered as a success with no questions
ErrorResponseAsSuccess(message) ==
    [status |-> 200, success |-> TRUE, questions |-> <<>>, warning |-> FALSE,
     message |-> message]

\* index.js:190-197, 267-274
ErrorResponse(message) ==
    [status |-> 500, success |-> FALSE, questions |-> <<>>, warning |-> FALSE,
     message |-> message]

\* index.js:261-266
RefreshResponse(qs) ==
    [status |-> 200, success |-> TRUE, questions |-> qs, warning |-> FALSE,
     message |-> "Questions cache refreshed"]

\* index.js:314-318
SavedResponse ==
    [status |-> 200, success |-> TRUE, questions |-> <<>>, warning |-> FALSE,
     message |-> "User data saved to Google Sheets successfully"]

\* the append failure passed on as an error
SaveFailedAsError ==
    [status |-> 500, success |-> FALSE, questions |-> <<>>, warning |-> FALSE,
     message |-> "Failed to save user data"]

\* index.js:319-329
SaveFailedResponse ==
    [status |-> 200, success |-> TRUE, questions |-> <<>>, warning |-> TRUE,
     message |-> "User data received (Google Sheets save failed)"]

\* index.js:330-340
NotConfiguredResponse ==
    [status |-> 200, success |-> TRUE, questions |-> <<>>, warning |-> TRUE,
     message |-> "User data received (Google Sheets not configured)"]

\* Array.prototype.slice(0, end): a negative end counts from the end
Slice(qs, end) ==
    LET e == IF end < 0 THEN (IF Len(qs) + end < 0 THEN 0 ELSE Len(qs) + end)
             ELSE (IF end > Len(qs) THEN Len(qs) ELSE end)
    IN  SubSeq(qs, 1, e)

\* index.js:181: parseInt(req.query.count) || questions.length; NaN and 0 are
\* falsy
Count(arg, qs) ==
    LET n == parseInt(arg)
    IN  IF n.nan \/ n.val = 0 THEN Len(qs) ELSE n.val

\* index.js:182: questions.slice(0, Math.min(count, questions.length))
SelectedQuestions(arg, qs) ==
    Slice(qs, IF Count(arg, qs) < Len(qs) THEN Count(arg, qs) ELSE Len(qs))

\* index.js:203-204: questions.find(q => q.id === parseInt(req.params.id)),
\* as the set of the positions of the matching questions
Find(arg, qs) ==
    {k \in 1..Len(qs) : ~parseInt(arg).nan /\ qs[k].id = parseInt(arg).val}

\* index.js:213-216
QuestionResponse(q) ==
    [status |-> 200, success |-> TRUE, question |-> q, error |-> ""]

\* index.js:206-211
QuestionNotFoundResponse ==
    [status |-> 404, success |-> FALSE, error |-> "Question not found"]

\* index.js:200-216 after getQuestions returned
QuestionByIdAnswer(arg, qs) ==
    IF Find(arg, qs) = {} THEN QuestionNotFoundResponse
    ELSE QuestionResponse(qs[CHOOSE k \in Find(arg, qs) : \A h \in Find(arg, qs) : k <= h])

\* the number of questions of weightage w, index.js:235-237
WithWeightage(qs, w) == Cardinality({k \in 1..Len(qs) : qs[k].weightage = Num(w)})

\* index.js:231-243
StatsResponse(qs, stamp) ==
    [status |-> 200, success |-> TRUE, total |-> Len(qs),
     easy |-> WithWeightage(qs, 5), medium |-> WithWeightage(qs, 10),
     hard |-> WithWeightage(qs, 20), lastUpdated |-> stamp]

\* the answer of the handler of request kind, with argument arg, to what
\* getQuestions returned; stamp is lastCacheUpdate as the handler reads it
Answer(kind, arg, qs, stamp) ==
    CASE kind = "refresh" -> RefreshResponse(qs)
      [] kind = "byId" -> QuestionByIdAnswer(arg, qs)
      [] kind = "stats" -> StatsResponse(qs, stamp)
      [] OTHER -> QuestionsResponse(SelectedQuestions(arg, qs))

Init ==
    /\ isGoogleSheetsConfigured = FALSE
    /\ questionsCache = <<>>
    /\ lastCacheUpdate = 0
    /\ clock = StartTime
    /\ env \in Envs
    /\ req = [r \in Req |-> IdleReq]
    /\ rows = <<>>
    /\ questions = <<>>
    /\ tpc = "none"

\* a fetched grid replaces the snapshot whether or not it has rows
RowsAlwaysUsable(res) == res.hasValues

\* index.js:153: rows && rows.length > 0
RowsUsable(res) == res.hasValues /\ Len(res.values) > 0

\* the refresh handler leaving the cache variables as they are
NotCleared == [cache |-> questionsCache, stamp |-> lastCacheUpdate]

\* index.js:256-257: questionsCache = []; lastCacheUpdate = 0
Cleared == [cache |-> <<>>, stamp |-> 0]

\* the time of the fetch not recorded
StampNotRecorded(now) == lastCacheUpdate

\* index.js:155: lastCacheUpdate = now
NewStamp(now) == now

\* the fetched questions added to those of the cache
Appended(cache, qs) == cache \o qs

\* index.js:154: the assignment replaces the array the cache held
Replaced(cache, qs) == qs

\* the resolver not called: the caller goes on with the flag as it is
CallInitSkipped(r, base) ==
    /\ req' = [req EXCEPT ![r] = [base EXCEPT !.pc = "afterInit"]]
    /\ UNCHANGED isGoogleSheetsConfigured

\* the call of initializeGoogleSheets up to its await or its return, made by
\* request r whose record becomes base (index.js:142, 283 and 20-52)
CallInit(r, base) ==
    LET o == InitSync(env)
    IN  /\ req' = [req EXCEPT ![r] =
                     [base EXCEPT !.pc = IF o = "await" THEN "verifying" ELSE "afterInit",
                                  !.auth = AuthSource(env),
                                  !.resolves = base.resolves + 1]]
        /\ isGoogleSheetsConfigured' =
             IF o = "throw" THEN FALSE ELSE isGoogleSheetsConfigured

\* getQuestions from its first line to its first await or its return
\* (index.js:135-147), called by request r of the given kind and argument when
\* the cache variables hold cache and stamp
EnterGetQuestions(r, kind, arg, cache, stamp) ==
    LET base == [IdleReq EXCEPT
                   !.kind = kind,
                   !.arg = arg,
                   !.now = clock,
                   !.before = CacheState(questionsCache, lastCacheUpdate, clock)]
    IN  /\ questionsCache' = cache
        /\ lastCacheUpdate' = stamp
        /\ IF IsFresh(cache, stamp, clock)
           THEN /\ req' = [req EXCEPT ![r] =
                             [base EXCEPT !.pc = "done", !.served = TRUE,
                                          !.resp = Answer(kind, arg, cache, stamp)]]
                /\ UNCHANGED isGoogleSheetsConfigured
           ELSE IF ~isGoogleSheetsConfigured
                THEN CallInit(r, base)
                ELSE /\ req' = [req EXCEPT ![r] =
                                  [base EXCEPT !.pc = "fetching", !.fetches = 1]]
                     /\ UNCHANGED isGoogleSheetsConfigured

\* GET /api/questions with no count in the query, index.js:177-179
GetQuestionsRequest(r) ==
    /\ FirstIdle(r)
    /\ EnterGetQuestions(r, "questions", <<>>, questionsCache, lastCacheUpdate)
    /\ UNCHANGED <<clock, env, rows, questions, tpc>>

\* POST /api/questions/refresh, index.js:254-259
RefreshRequest(r) ==
    /\ FirstIdle(r)
    /\ EnterGetQuestions(r, "refresh", <<>>, Cleared.cache, Cleared.stamp)
    /\ UNCHANGED <<clock, env, rows, questions, tpc>>

\* POST /api/user-data, index.js:277-302
UserDataRequest(r) ==
    LET base == [IdleReq EXCEPT !.kind = "userData"]
    IN  /\ FirstIdle(r)
        /\ IF ~isGoogleSheetsConfigured
           THEN CallInit(r, base)
           ELSE /\ req' = [req EXCEPT ![r] = [base EXCEPT !.pc = "appending"]]
                /\ UNCHANGED isGoogleSheetsConfigured
        /\ UNCHANGED <<questionsCache, lastCacheUpdate, clock, env, rows, questions, tpc>>

\* the verification call of index.js:52 settles: 56-57 or the catch of 59-63
VerifyDone(r) ==
    /\ req[r].pc = "verifying"
    /\ \E ok \in BOOLEAN :
         /\ isGoogleSheetsConfigured' = ok
         /\ req' = [req EXCEPT ![r].pc = "afterInit"]
    /\ UNCHANGED <<questionsCache, lastCacheUpdate, clock, env, rows, questions, tpc>>

\* the caller resumes after await initializeGoogleSheets(): index.js:145-147
\* and 164 in getQuestions, 286-302 and 330-340 in the user-data handler
AfterInit(r) ==
    /\ req[r].pc = "afterInit"
    /\ IF req[r].kind = "userData"
       THEN IF isGoogleSheetsConfigured
            THEN req' = [req EXCEPT ![r].pc = "appending"]
            ELSE req' = [req EXCEPT ![r].pc = "done",
                                    ![r].resp = NotConfiguredResponse]
       ELSE IF isGoogleSheetsConfigured
            THEN req' = [req EXCEPT ![r].pc = "fetching",
                                    ![r].fetches = req[r].fetches + 1]
            ELSE req' = [req EXCEPT ![r].pc = "done",
                                    ![r].resp = ErrorResponse(NoSourceMessage)]
    /\ UNCHANGED <<isGoogleSheetsConfigured, questionsCache, lastCacheUpdate, clock,
                   env, rows, questions, tpc>>

\* sheets.spreadsheets.values.get settles: index.js:152-165 and the handler's
\* answer
FetchDone(r) ==
    /\ req[r].pc = "fetching"
    /\ \E res \in FetchResults :
         IF res.ok /\ RowsUsable(res)
         THEN /\ questionsCache' =
                   Replaced(questionsCache, transformSheetDataToQuestions(res.values))
              /\ lastCacheUpdate' = NewStamp(req[r].now)
              /\ req' = [req EXCEPT ![r].pc = "done",
                                    ![r].fetched = res,
                                    ![r].resp = Answer(req[r].kind, req[r].arg,
                                                      questionsCache', lastCacheUpdate')]
         ELSE /\ UNCHANGED <<questionsCache, lastCacheUpdate>>
              /\ req' = [req EXCEPT ![r].pc = "done",
                                    ![r].fetched = res,
                                    ![r].resp = ErrorResponse(NoSourceMessage)]
    /\ UNCHANGED <<isGoogleSheetsConfigured, clock, env, rows, questions, tpc>>

\* sheets.spreadsheets.values.append settles: index.js:312-329
AppendDone(r) ==
    /\ req[r].pc = "appending"
    /\ \E ok \in BOOLEAN :
         req' = [req EXCEPT ![r].pc = "done",
                            ![r].persisted = ok,
                            ![r].resp = IF ok THEN SavedResponse ELSE SaveFailedResponse]
    /\ UNCHANGED <<isGoogleSheetsConfigured, questionsCache, lastCacheUpdate, clock,
                   env, rows, questions, tpc>>

\* the answer is sent and the slot is free for the next request
Finish(r) ==
    /\ req[r].pc = "done"
    /\ req' = [req EXCEPT ![r] = IdleReq]
    /\ UNCHANGED <<isGoogleSheetsConfigured, questionsCache, lastCacheUpdate, clock,
                   env, rows, questions, tpc>>

\* time passes
Tick ==
    /\ clock + TickMs <= StartTime + MaxTicks * TickMs
    /\ clock' = clock + TickMs
    /\ UNCHANGED <<isGoogleSheetsConfigured, questionsCache, lastCacheUpdate, env,
                   req, rows, questions, tpc>>

\* no answer is waiting to be sent: res.json is called in the run of the handler
\* that produced the answer, before any other request runs
NoneDone == \A r \in Req : req[r].pc # "done"

Next ==
    \/ \E r \in Req :
         \/ NoneDone /\ GetQuestionsRequest(r)
         \/ NoneDone /\ RefreshRequest(r)
         \/ NoneDone /\ UserDataRequest(r)
         \/ NoneDone /\ VerifyDone(r)
         \/ NoneDone /\ AfterInit(r)
         \/ NoneDone /\ FetchDone(r)
         \/ NoneDone /\ AppendDone(r)
         \/ Finish(r)
    \/ NoneDone /\ Tick

Spec == Init /\ [][Next]_vars

-----------------------------------------------------------------------------
(* The server when no POST /api/questions/refresh is ever sent: the           *)
(* interleavings of Spec without the refresh handler.                         *)

NextNoRefresh ==
    \/ \E r \in Req :
         \/ NoneDone /\ GetQuestionsRequest(r)
         \/ NoneDone /\ UserDataRequest(r)
         \/ NoneDone /\ VerifyDone(r)
         \/ NoneDone /\ AfterInit(r)
         \/ NoneDone /\ FetchDone(r)
         \/ NoneDone /\ AppendDone(r)
         \/ Finish(r)
    \/ NoneDone /\ Tick

SpecNoRefresh == Init /\ [][NextNoRefresh]_vars

-----------------------------------------------------------------------------
(* Calls of GET /api/questions one after the other, two at a time: the second *)
(* starts when the first is answered, and both answers are kept until the     *)
(* next pair starts.                                                          *)

SeqFirstCall ==
    /\ \A r \in Req : req[r].pc = "idle"
    /\ GetQuestionsRequest(1)

SeqSecondCall ==
    /\ req[1].pc = "done"
    /\ \A r \in Req \ {1} : req[r].pc = "idle"
    /\ GetQuestionsRequest(2)

SeqStep == \E r \in Req : VerifyDone(r) \/ AfterInit(r) \/ FetchDone(r)

SeqReset ==
    /\ req[1].pc = "done"
    /\ req[2].pc = "done"
    /\ req' = [r \in Req |-> IdleReq]
    /\ UNCHANGED <<isGoogleSheetsConfigured, questionsCache, lastCacheUpdate, clock,
                   env, rows, questions, tpc>>

NextSequential == SeqFirstCall \/ SeqSecondCall \/ SeqStep \/ SeqReset \/ Tick

SpecSequential == Init /\ [][NextSequential]_vars

-----------------------------------------------------------------------------
(* The router: app.get and app.post register the routes in the order of the   *)
(* source, and Express hands a request to the first registered route whose    *)
(* method and path match; no handler of index.js calls next().  A path is the *)
(* sequence of its segments, a segment a string as above.  Requests arrive    *)
(* one at a time.                                                             *)

SegApi == <<"a", "p", "i">>
SegHealth == <<"h", "e", "a", "l", "t", "h">>
SegQuestions == <<"q", "u", "e", "s", "t", "i", "o", "n", "s">>
SegId == <<":", "i", "d">>
SegStats == <<"s", "t", "a", "t", "s">>
SegRefresh == <<"r", "e", "f", "r", "e", "s", "h">>
SegUserData == <<"u", "s", "e", "r", "-", "d", "a", "t", "a">>

\* index.js:168, 177, 200, 227, 254, 277
Routes ==
    <<[method |-> "GET",  path |-> <<SegApi, SegHealth>>,               handler |-> "health"],
      [method |-> "GET",  path |-> <<SegApi, SegQuestions>>,            handler |-> "questions"],
      [method |-> "GET",  path |-> <<SegApi, SegQuestions, SegId>>,     handler |-> "byId"],
      [method |-> "GET",  path |-> <<SegApi, SegQuestions, SegStats>>,  handler |-> "stats"],
      [method |-> "POST", path |-> <<SegApi, SegQuestions, SegRefresh>>, handler |-> "refresh"],
      [method |-> "POST", path |-> <<SegApi, SegUserData>>,             handler |-> "userData"]>>

\* a segment of a route that starts with a colon is a parameter and matches
\* any segment
MatchesSegment(pattern, segment) ==
    IF Head(pattern) = ":" THEN segment # <<>> ELSE pattern = segment

Matches(route, method, path) ==
    /\ route.method = method
    /\ Len(route.path) = Len(path)
    /\ \A i \in 1..Len(path) : MatchesSegment(route.path[i], path[i])

\* the handler of the first matching route, in the order of registration
Dispatch(method, path) ==
    LET hits == {d \in 1..Len(Routes) : Matches(Routes[d], method, path)}
    IN  IF hits = {} THEN "notFound"
        ELSE Routes[CHOOSE d \in hits : \A h \in hits : d <= h].handler

\* the texts of ?count= (empty: no count in the query) and of the last segment
\* of GET /api/questions/...
CountArgs == {<<>>, <<"1">>, <<"2">>, <<"3">>, <<"0">>, <<"-", "1">>, <<"x">>}
IdArgs == {<<"1">>, <<"2">>, <<"3">>, <<"x">>, SegStats}

HttpRequests ==
    {[method |-> "GET", path |-> <<SegApi, SegHealth>>, count |-> <<>>],
     [method |-> "GET", path |-> <<SegApi, SegRefresh>>, count |-> <<>>],
     [method |-> "POST", path |-> <<SegApi, SegQuestions, SegRefresh>>, count |-> <<>>],
     [method |-> "POST", path |-> <<SegApi, SegUserData>>, count |-> <<>>]}
    \cup {[method |-> "GET", path |-> <<SegApi, SegQuestions>>, count |-> c] :
            c \in CountArgs}
    \cup {[method |-> "GET", path |-> <<SegApi, SegQuestions, a>>, count |-> <<>>] :
            a \in IdArgs}

\* index.js:169-174
HealthResponse ==
    [status |-> 200, googleSheetsConfigured |-> isGoogleSheetsConfigured]

\* the answer of Express when no route matches
NoRouteResponse == [status |-> 404, success |-> FALSE, error |-> "Cannot route"]

\* a request arrives and its handler runs to its first await or to its answer
HttpRequest(r) ==
    /\ FirstIdle(r)
    /\ \E h \in HttpRequests :
         LET handler == Dispatch(h.method, h.path)
         IN  \/ /\ handler = "questions"
                /\ EnterGetQuestions(r, "questions", h.count, questionsCache, lastCacheUpdate)
             \/ /\ handler = "byId"
                /\ EnterGetQuestions(r, "byId", h.path[3], questionsCache, lastCacheUpdate)
             \/ /\ handler = "stats"
                /\ EnterGetQuestions(r, "stats", <<>>, questionsCache, lastCacheUpdate)
             \/ /\ handler = "refresh"
                /\ EnterGetQuestions(r, "refresh", <<>>, Cleared.cache, Cleared.stamp)
             \/ /\ handler = "userData"
                /\ IF ~isGoogleSheetsConfigured
                   THEN CallInit(r, [IdleReq EXCEPT !.kind = "userData"])
                   ELSE /\ req' = [req EXCEPT ![r] =
                                     [IdleReq EXCEPT !.kind = "userData", !.pc = "appending"]]
                        /\ UNCHANGED isGoogleSheetsConfigured
                /\ UNCHANGED <<questionsCache, lastCacheUpdate>>
             \/ /\ handler \in {"health", "notFound"}
                /\ req' = [req EXCEPT ![r] =
                             [IdleReq EXCEPT
                                !.kind = handler,
                                !.pc = "done",
                                !.resp = IF handler = "health" THEN HealthResponse
                                         ELSE NoRouteResponse]]
                /\ UNCHANGED <<isGoogleSheetsConfigured, questionsCache, lastCacheUpdate>>
    /\ UNCHANGED <<clock, env, rows, questions, tpc>>

NextRoutes ==
    \/ HttpRequest(1)
    \/ VerifyDone(1)
    \/ AfterInit(1)
    \/ FetchDone(1)
    \/ AppendDone(1)
    \/ Finish(1)
    \/ Tick

SpecRoutes == Init /\ [][NextRoutes]_vars

-----------------------------------------------------------------------------
(* Properties of the Row Transformer, checked under SpecTransform *)

\* the JavaScript indexes of the rows the loop visits
DataIndexes(grid) == {i \in 0..(Len(grid) - 1) : i >= StartIndex(grid)}

\* C9: every record of the output of transform has a non-empty question, 2 to 4
\* options that are all non-empty, an integer correctAnswer with
\* 0 <= correctAnswer < options.length and an integer weightage > 0, and comes
\* from a row of at least 6 cells: a row that fails any of these gives no record.
C9_ValidRecords ==
    tpc = "done" =>
        \A k \in 1..Len(questions) :
            LET q == questions[k]
                i == q.id - 1 + StartIndex(rows)
            IN  /\ q.question # <<>>
                /\ Len(q.options) \in 2..4
                /\ \A j \in 1..Len(q.options) : q.options[j] # <<>>
                /\ ~q.correctAnswer.nan
                /\ q.correctAnswer.val \in 0..(Len(q.options) - 1)
                /\ ~q.weightage.nan
                /\ q.weightage.val > 0
                /\ i \in DataIndexes(rows)
                /\ Len(rows[i + 1]) >= 6

\* C9 witness: a grid of which one row gave a record and another row gave none
C9_Witness ==
    /\ tpc = "done"
    /\ Len(questions) >= 1
    /\ Len(questions) < Cardinality(DataIndexes(rows))

\* C10: the ids of the output are exactly (index within the post-header rows) + 1
\* of the rows that are retained, each record holds the question text of the row
\* its id names, and the ids are strictly increasing along the output.
C10_IdIsRowPosition ==
    tpc = "done" =>
        /\ {questions[k].id : k \in 1..Len(questions)}
             = {i - StartIndex(rows) + 1 :
                  i \in {j \in DataIndexes(rows) :
                           /\ Len(rows[j + 1]) >= 6
                           /\ Retained(Question(rows[j + 1], j, StartIndex(rows)))}}
        /\ \A k \in 1..Len(questions) :
             /\ questions[k].id >= 1
             /\ questions[k].question
                  = CellText(rows[questions[k].id + StartIndex(rows)], 0)
        /\ \A k \in 1..(Len(questions) - 1) : questions[k].id < questions[k + 1].id

\* C10 witness: a dropped row between two retained rows leaves a gap in the ids
C10_Witness ==
    /\ tpc = "done"
    /\ \E k \in 1..(Len(questions) - 1) : questions[k + 1].id > questions[k].id + 1

\* the first cell of the first row holds "question" in some mix of cases
HasHeader(grid) ==
    /\ grid # <<>>
    /\ grid[1] # <<>>
    /\ \E i \in 1..(Len(grid[1][1]) - 7) :
         toLowerCase(SubSeq(grid[1][1], i, i + 7))
           = <<"q", "u", "e", "s", "t", "i", "o", "n">>

\* C11: transform skips row 0 exactly when its first cell contains "question"
\* in any mix of cases, and otherwise processes row 0 as data: the output is
\* that of the loop over the rows after the header, or over all rows, and a
\* record of the first data row has id 1.
C11_HeaderSkipped ==
    tpc = "done" =>
        LET data == IF HasHeader(rows) THEN Tail(rows) ELSE rows
        IN  /\ questions = TransformLoop(data, 0, 0)
            /\ (/\ data # <<>>
                /\ Len(data[1]) >= 6
                /\ Retained(Question(data[1], 0, 0)))
               => (/\ questions # <<>>
                   /\ questions[1].id = 1
                   /\ questions[1].question = CellText(data[1], 0))

\* C11 witness: a header row in capitals is skipped and the row after it gives
\* the record with id 1
C11_Witness ==
    /\ tpc = "done"
    /\ Len(rows) >= 2
    /\ HasHeader(rows)
    /\ rows[1][1] # toLowerCase(rows[1][1])
    /\ questions # <<>>
    /\ questions[1].id = 1
    /\ questions[1].question = CellText(rows[2], 0)

\* the record the output holds for the row at JavaScript index i, if any
RecordsOf(i) ==
    {k \in 1..Len(questions) : questions[k].id = i - StartIndex(rows) + 1}

\* an optional sign and decimal digits
IsIntegerLiteral(t) == StripSign(t) # <<>> /\ AllDigits(StripSign(t))

IntegerLiteralValue(t) ==
    (IF Head(t) = "-" THEN -1 ELSE 1) * DigitsValue(StripSign(t))

\* the answer cell is an integer literal, or is no number at all (text, or
\* nothing)
AnswerIsIndexOrText(row) ==
    LET t == CellText(row, 5)
    IN  IsIntegerLiteral(t) \/ isNaN(t) \/ t = <<>>

\* the resolution of correctAnswer as the specification words it
ResolvedAnswer(row) ==
    LET t == CellText(row, 5)
    IN  IF IsIntegerLiteral(t) THEN IntegerLiteralValue(t)
        ELSE IF FindIndex(Options(row), t) = -1 THEN 0
        ELSE FindIndex(Options(row), t)

\* C12: for every row of at least 6 cells, correctAnswer is the literal number
\* of the answer cell, else the index of the first option equal to the answer
\* text in any mix of cases, else 0: a record of the row holds that value, and
\* the row gives a record when that value is an index of its options and the
\* question, the options and the weightage are valid.
C12_AnswerResolved ==
    tpc = "done" =>
        \A i \in DataIndexes(rows) :
            LET row == rows[i + 1]
            IN  (Len(row) >= 6 /\ AnswerIsIndexOrText(row))
                => /\ \A k \in RecordsOf(i) :
                        questions[k].correctAnswer = Num(ResolvedAnswer(row))
                   /\ (/\ CellText(row, 0) # <<>>
                       /\ Len(Options(row)) >= 2
                       /\ JsGt(Weightage(row), Num(0))
                       /\ ResolvedAnswer(row) \in 0..(Len(Options(row)) - 1))
                      => RecordsOf(i) # {}

\* the text of the weightage cell, empty when the cell is absent
WeightageText(row) == toLowerCase(CellText(row, 6))

\* the weightage cell is an integer literal, or is no number at all (a label,
\* other text, white space, nothing)
WeightageIsIntegerOrText(row) ==
    LET t == WeightageText(row)
    IN  IsIntegerLiteral(t) \/ isNaN(t) \/ t = <<>>

\* the resolution of weightage as the specification words it
ResolvedWeightage(row) ==
    LET t == WeightageText(row)
    IN  IF IsIntegerLiteral(t) THEN IntegerLiteralValue(t)
        ELSE IF t = <<"e", "a", "s", "y">> THEN 5
        ELSE IF t = <<"h", "a", "r", "d">> THEN 20
        ELSE 10

\* C13: for every row of at least 6 cells, weightage is the literal number of
\* the weightage cell, else 5, 10 or 20 for the labels easy, medium, hard in any
\* mix of cases, else 10: a record of the row holds that value, and a row whose
\* weightage cell is absent or unrecognized gives a record when its question,
\* options and answer are valid.
C13_WeightageResolved ==
    tpc = "done" =>
        \A i \in DataIndexes(rows) :
            LET row == rows[i + 1]
            IN  (Len(row) >= 6 /\ WeightageIsIntegerOrText(row))
                => /\ \A k \in RecordsOf(i) :
                        questions[k].weightage = Num(ResolvedWeightage(row))
                   /\ (/\ CellText(row, 0) # <<>>
                       /\ Len(Options(row)) >= 2
                       /\ JsGe(CorrectAnswer(row), Num(0))
                       /\ JsLt(CorrectAnswer(row), Num(Len(Options(row))))
                       /\ ResolvedWeightage(row) > 0)
                      => RecordsOf(i) # {}

\* the two rules on the rows whose cell is not empty after trimming
NonEmptyCellsResolved ==
    tpc = "done" =>
        \A i \in DataIndexes(rows) :
            LET row == rows[i + 1]
            IN  /\ (/\ Len(row) >= 6
                    /\ AnswerIsIndexOrText(row)
                    /\ CellText(row, 5) # <<>>
                    /\ JsGt(Weightage(row), Num(0))
                    /\ CellText(row, 0) # <<>>
                    /\ Len(Options(row)) >= 2)
                   => IF ResolvedAnswer(row) \in 0..(Len(Options(row)) - 1)
                      THEN \E k \in RecordsOf(i) :
                             questions[k].correctAnswer = Num(ResolvedAnswer(row))
                      ELSE RecordsOf(i) = {}
                /\ (/\ Len(row) >= 6
                    /\ WeightageIsIntegerOrText(row)
                    /\ (Len(row) > 6 => trim(row[7]) # <<>> \/ row[7] = <<>>))
                   => \A k \in RecordsOf(i) :
                        questions[k].weightage = Num(ResolvedWeightage(row))

-----------------------------------------------------------------------------
(* Properties of the cache manager and the handlers *)

\* request r leaves getQuestions because its fetch settled
FetchSettles(r) == req[r].pc = "fetching" /\ req'[r].pc = "done"

\* request r resumes after the resolver and is answered at once
ResumesUnconfigured(r) ==
    /\ req[r].pc = "afterInit"
    /\ req'[r].pc = "done"
    /\ req[r].kind # "userData"

\* C1: when getQuestions() was called with a non-empty snapshot of age >= TTL
\* and its fetch call errors, the call returns the snapshot's questions, which
\* stay as they are; it does not fail.
C1_FetchErrorFallsBack ==
    [][\A r \in Req :
         (/\ FetchSettles(r)
          /\ req[r].kind = "questions"
          /\ req[r].before = "Stale"
          /\ ~req'[r].fetched.ok
          /\ questionsCache # <<>>)
         => /\ req'[r].resp.success
            /\ req'[r].resp.questions = questionsCache
            /\ questionsCache' = questionsCache]_vars

\* C2 as stated: of two calls one after the other, the first started on a cache
\* miss with the source configured and answered successfully, the second
\* started less than CACHE_DURATION after the first, exactly one fetched.
C2_OneFetchPerWindow ==
    (/\ req[1].pc = "done" /\ req[2].pc = "done"
     /\ req[1].before \in {"Empty", "Stale"} /\ req[1].resolves = 0
     /\ req[1].resp.success
     /\ req[2].now - req[1].now < CACHE_DURATION)
    => req[1].fetches + req[2].fetches = 1

\* C2 amended: the same when the first call returned at least one question
C2_OneFetchPerWindowNonEmpty ==
    (/\ req[1].pc = "done" /\ req[2].pc = "done"
     /\ req[1].before \in {"Empty", "Stale"} /\ req[1].resolves = 0
     /\ req[1].resp.success
     /\ req[1].resp.questions # <<>>
     /\ req[2].now - req[1].now < CACHE_DURATION)
    => req[1].fetches + req[2].fetches = 1

\* C2 witness: the second call starts later than the first, inside the window,
\* and is served from the snapshot the first call fetched
C2_Witness ==
    /\ req[1].pc = "done" /\ req[2].pc = "done"
    /\ req[1].before \in {"Empty", "Stale"} /\ req[1].resolves = 0
    /\ req[1].fetches = 1
    /\ req[1].resp.questions # <<>>
    /\ req[2].now > req[1].now
    /\ req[2].now - req[1].now < CACHE_DURATION
    /\ req[2].served
    /\ req[2].resp.questions = req[1].resp.questions

\* C3: a GET /api/questions that starts while the cache is Fresh is answered in
\* the same step with the snapshot's questions, calls neither the resolver nor
\* the fetch, and leaves the snapshot, its time and the configured flag alone.
C3_FreshServedWithoutIO ==
    [][\A r \in Req :
         (/\ req[r].pc = "idle"
          /\ req'[r].kind = "questions"
          /\ CacheState(questionsCache, lastCacheUpdate, clock) = "Fresh")
         => /\ req'[r].pc = "done"
            /\ req'[r].resp.success
            /\ req'[r].resp.questions = questionsCache
            /\ req'[r].resolves = 0
            /\ req'[r].fetches = 0
            /\ UNCHANGED <<questionsCache, lastCacheUpdate, isGoogleSheetsConfigured>>]_vars

\* C3 witness: a call served from a snapshot fetched earlier than the call
C3_Witness ==
    \E r \in Req :
        /\ req[r].kind = "questions"
        /\ req[r].pc = "done"
        /\ req[r].served
        /\ req[r].now > lastCacheUpdate
        /\ req[r].resp.questions = questionsCache
        /\ questionsCache # <<>>

\* C4: when getQuestions() holds a Stale non-empty snapshot and the source is
\* still unconfigured after the resolver ran, the call returns the snapshot's
\* questions and does not fail.
C4_UnconfiguredFallsBack ==
    [][\A r \in Req :
         (/\ ResumesUnconfigured(r)
          /\ req[r].kind = "questions"
          /\ req[r].before = "Stale"
          /\ ~isGoogleSheetsConfigured
          /\ questionsCache # <<>>)
         => /\ req'[r].resp.success
            /\ req'[r].resp.questions = questionsCache
            /\ questionsCache' = questionsCache]_vars

\* C5: when the cache is empty and the source is still unconfigured after the
\* resolver ran, getQuestions() throws the no-source error, the cache stays
\* empty, and the handler answers 500 with success: false and that message.
C5_EmptyUnconfiguredFails ==
    [][\A r \in Req :
         (/\ ResumesUnconfigured(r)
          /\ ~isGoogleSheetsConfigured
          /\ questionsCache = <<>>)
         => /\ req'[r].resp.status = 500
            /\ ~req'[r].resp.success
            /\ req'[r].resp.message = NoSourceMessage
            /\ req'[r].fetches = 0
            /\ questionsCache' = <<>>]_vars

\* C5 witness: a GET /api/questions answered 500 after one resolver call and no
\* fetch, the cache empty
C5_Witness ==
    \E r \in Req :
        /\ req[r].kind = "questions"
        /\ req[r].pc = "done"
        /\ req[r].resolves = 1
        /\ req[r].fetches = 0
        /\ req[r].resp.status = 500
        /\ ~isGoogleSheetsConfigured
        /\ questionsCache = <<>>

\* C6 as stated: whenever the fetch call completes without error, the snapshot
\* becomes the transform of the fetched rows (of no rows when the grid is empty
\* or absent) and its time becomes the time of the call.
C6_UnconditionalOverwrite ==
    [][\A r \in Req :
         (FetchSettles(r) /\ req'[r].fetched.ok)
         => /\ questionsCache' = transformSheetDataToQuestions(req'[r].fetched.values)
            /\ lastCacheUpdate' = req[r].now]_vars

\* C6 amended: that holds when the fetched grid has at least one row, also when
\* its transform is empty; when the grid is empty or absent, the snapshot and
\* its time stay as they were.
C6_OverwriteWhenRowsFetched ==
    [][\A r \in Req :
         (FetchSettles(r) /\ req'[r].fetched.ok)
         => IF req'[r].fetched.hasValues /\ req'[r].fetched.values # <<>>
            THEN /\ questionsCache' = transformSheetDataToQuestions(req'[r].fetched.values)
                 /\ lastCacheUpdate' = req[r].now
                 /\ req'[r].resp.success
                 /\ req'[r].resp.questions = questionsCache'
            ELSE UNCHANGED <<questionsCache, lastCacheUpdate>>]_vars

\* C6 witness: a fetch of a grid with rows whose transform is empty has left the
\* cache empty with the time of that call
C6_Witness ==
    \E r \in Req :
        /\ req[r].pc = "done"
        /\ req[r].fetched.ok
        /\ req[r].fetched.values # <<>>
        /\ req[r].resp.success
        /\ questionsCache = <<>>
        /\ lastCacheUpdate = req[r].now

\* C7: a POST /api/questions/refresh is never served from the cache, and when
\* the source is configured as it starts, it issues the fetch in its first step.
C7_RefreshAlwaysFetches ==
    [][\A r \in Req :
         (req[r].pc = "idle" /\ req'[r].kind = "refresh")
         => /\ ~req'[r].served
            /\ req'[r].pc # "done"
            /\ isGoogleSheetsConfigured
                 => (req'[r].pc = "fetching" /\ req'[r].fetches = 1)
            /\ ~isGoogleSheetsConfigured => req'[r].resolves = 1]_vars

\* C7 witness: a refresh that started on a Fresh cache, at the very time of the
\* fetch that filled it, is fetching
C7_Witness ==
    \E r \in Req :
        /\ req[r].kind = "refresh"
        /\ req[r].before = "Fresh"
        /\ req[r].pc = "fetching"
        /\ req[r].fetches = 1
        /\ questionsCache = <<>>
        /\ lastCacheUpdate = 0

\* C8: every POST /api/user-data is answered 200 with success: true, and the
\* answer carries the warning exactly when the row was not appended.
C8_SubmissionAlwaysSucceeds ==
    \A r \in Req :
        (req[r].kind = "userData" /\ req[r].pc = "done")
        => /\ req[r].resp.status = 200
           /\ req[r].resp.success
           /\ req[r].resp.warning <=> ~req[r].persisted

\* C8 witness: the source was configured and the append failed
C8_Witness ==
    \E r \in Req :
        /\ req[r].kind = "userData"
        /\ req[r].pc = "done"
        /\ req[r].resolves = 0
        /\ ~req[r].persisted
        /\ req[r].resp.warning

\* C16: in every step the cached questions stay as they are or become the
\* transform of the rows of a fetch that succeeded in that step, with the time
\* of that call; a fetch that fails and a call that finds the source
\* unconfigured leave the questions and the time alone; the start of an
\* explicit refresh changes the time only, and keeps the questions.
C16_QuestionsKeptUntilReplaced ==
    [][\/ /\ questionsCache' = questionsCache
          /\ \/ lastCacheUpdate' = lastCacheUpdate
             \/ /\ lastCacheUpdate' = 0
                /\ \E r \in Req : req[r].pc = "idle" /\ req'[r].kind = "refresh"
       \/ \E r \in Req :
            /\ FetchSettles(r)
            /\ req'[r].fetched.ok
            /\ questionsCache' = transformSheetDataToQuestions(req'[r].fetched.values)
            /\ lastCacheUpdate' = req[r].now]_vars

\* the snapshots a single fetch can leave
Snapshots == {<<>>} \cup {transformSheetDataToQuestions(g) : g \in ValuesPool}

\* request r decides whether to fetch: it enters getQuestions with the source
\* configured, or resumes after the resolver, and is not served from the cache
DecidesToFetch(r) ==
    /\ req'[r].kind \in {"questions", "refresh"}
    /\ ~req'[r].served
    /\ \/ req[r].pc = "idle" /\ req'[r].pc # "idle" /\ isGoogleSheetsConfigured
       \/ req[r].pc = "afterInit" /\ req'[r].pc # "afterInit"

\* C17: a getQuestions() call that misses the cache issues its own fetch when
\* the source is configured, whether or not another call is fetching; a fetch
\* that returns rows writes the transform of its own rows and the time of its
\* own call over whatever the cache holds, so the call that completes last
\* leaves the snapshot; the cache always holds the result of one fetch.
C17_NoDedupLastWriteWins ==
    [][/\ \A r \in Req :
            /\ (DecidesToFetch(r) /\ isGoogleSheetsConfigured)
               => (req'[r].pc = "fetching" /\ req'[r].fetches = req[r].fetches + 1)
            /\ (FetchSettles(r) /\ req'[r].fetched.ok /\ req'[r].fetched.values # <<>>)
               => /\ questionsCache' = transformSheetDataToQuestions(req'[r].fetched.values)
                  /\ lastCacheUpdate' = req[r].now
       /\ questionsCache' \in Snapshots]_vars

\* C17 witness: two calls that both missed the empty cache are fetching; one
\* has completed and written the cache, the other is about to write over it
C17_Witness ==
    \E r \in Req :
        /\ req[r].pc = "fetching"
        /\ req[r].before = "Empty"
        /\ req[r].kind = "questions"
        /\ questionsCache # <<>>
        /\ lastCacheUpdate = req[r].now

\* C18: of two calls one after the other, when the first was answered with the
\* no-source error without fetching, it had called the resolver, and the
\* second, which misses the cache too, calls the resolver again; when that
\* leaves the configured flag true the second call fetches, and when it leaves
\* the flag false the second call does not.
C18_ResolutionRetried ==
    (/\ req[1].pc = "done"
     /\ req[1].resp.status = 500
     /\ req[1].fetches = 0
     /\ req[2].pc # "idle")
    => /\ req[1].resolves = 1
       /\ ~req[2].served
       /\ req[2].resolves = 1
       /\ (req[2].pc \in {"fetching", "done"} /\ isGoogleSheetsConfigured)
          => req[2].fetches = 1
       /\ (req[2].pc = "done" /\ ~isGoogleSheetsConfigured)
          => (req[2].fetches = 0 /\ req[2].resp.status = 500)

\* C18 witness: the first call failed in the resolver, the second called the
\* resolver again, found the source configured, fetched and was answered
C18_Witness ==
    /\ req[1].pc = "done"
    /\ req[1].resolves = 1
    /\ req[1].fetches = 0
    /\ req[1].resp.status = 500
    /\ req[2].pc = "done"
    /\ req[2].resolves = 1
    /\ req[2].fetches = 1
    /\ req[2].resp.success
    /\ isGoogleSheetsConfigured

\* request r calls the resolver, and the verification call of r settles
CallsResolver(r) == req'[r].resolves = req[r].resolves + 1

VerificationSettles(r) == req[r].pc = "verifying" /\ req'[r].pc # "verifying"

\* the resolver call of r, which is to use the credentials auth ("none": it
\* fails), runs up to the verification call or returns with the flag false
ResolvesWith(r, auth) ==
    /\ req'[r].auth = auth
    /\ IF auth = "none"
       THEN req'[r].pc = "afterInit" /\ ~isGoogleSheetsConfigured'
       ELSE req'[r].pc = "verifying" /\ UNCHANGED isGoogleSheetsConfigured

\* the flag becomes true only as a verification call settles, and a resolver
\* call returns to its caller with the flag as the verification left it
FlagFollowsVerification ==
    /\ (~isGoogleSheetsConfigured /\ isGoogleSheetsConfigured')
       => \E r \in Req : VerificationSettles(r)
    /\ \A r \in Req :
         VerificationSettles(r) => req'[r].pc = "afterInit"

\* C19 as stated: without a spreadsheet id the resolver uses no credentials;
\* otherwise the inline payload when it is present and parses; otherwise the
\* file path when it is present; otherwise none.  Every failing resolution
\* returns with the flag false, and the flag becomes true only as a
\* verification call settles.
C19_ResolutionOrder ==
    [][/\ \A r \in Req :
            CallsResolver(r)
            => ResolvesWith(r,
                 IF env.spreadsheetId \in {"absent", "default"} THEN "none"
                 ELSE IF env.key = "valid" THEN "key"
                 ELSE IF env.file = "present" THEN "file"
                 ELSE "none")
       /\ FlagFollowsVerification]_vars

\* C19 amended: an inline payload that is present and does not parse fails the
\* resolution, whether or not a file path is present; the file path is used
\* only when no inline payload is present.
C19_ResolutionOrderInlineDecides ==
    [][/\ \A r \in Req :
            CallsResolver(r)
            => ResolvesWith(r,
                 IF env.spreadsheetId \in {"absent", "default"} THEN "none"
                 ELSE IF env.key = "valid" THEN "key"
                 ELSE IF env.key = "unparseable" THEN "none"
                 ELSE IF env.file = "present" THEN "file"
                 ELSE "none")
       /\ FlagFollowsVerification]_vars

\* C19 witness: the inline payload does not parse, a file path is present, and
\* the resolver has returned to its caller with the flag false
C19_Witness ==
    \E r \in Req :
        /\ env = [spreadsheetId |-> "set", key |-> "unparseable", file |-> "present"]
        /\ req[r].resolves = 1
        /\ req[r].pc = "afterInit"
        /\ req[r].auth = "none"
        /\ ~isGoogleSheetsConfigured

\* C20: once isGoogleSheetsConfigured is true it stays true, in every step of
\* every interleaving of getQuestions() calls and submissions.
C20_FlagStaysTrue ==
    [][isGoogleSheetsConfigured => isGoogleSheetsConfigured']_vars

\* C21: when no explicit refresh is ever sent, lastCacheUpdate never decreases:
\* every step leaves it as it is or raises it, also the step in which the fetch
\* of a call completes after the fetch of a call that started later.
C21_StampNeverDecreases ==
    [][lastCacheUpdate' >= lastCacheUpdate]_vars

-----------------------------------------------------------------------------
(* Properties of the routes, checked under SpecRoutes *)

\* request r asked for GET /api/questions/stats, whichever handler took it
AskedForStats(r) ==
    \/ req[r].kind = "stats"
    \/ req[r].kind = "byId" /\ req[r].arg = SegStats

\* C14: GET /api/questions/stats goes to the stats handler, and when
\* getQuestions() succeeds it is answered 200 with the total, the numbers of
\* questions of weightage 5, 10 and 20 and the time of the last refresh; the
\* single-question handler never answers it.
C14_StatsDispatched ==
    \A r \in Req :
        (req[r].pc = "done" /\ AskedForStats(r))
        => /\ req[r].kind = Dispatch("GET", <<SegApi, SegQuestions, SegStats>>)
           /\ req[r].kind = "stats"
           /\ req[r].resp.status # 500
                => req[r].resp = StatsResponse(questionsCache, lastCacheUpdate)

\* C15: GET /api/questions?count=N with an integer N is answered with the
\* first min(N, total) questions of the cache (none when N <= 0), and with all
\* of them when there is no count.
C15_CountIsPrefixLength ==
    \A r \in Req :
        (/\ req[r].pc = "done"
         /\ req[r].kind = "questions"
         /\ req[r].resp.success
         /\ IsIntegerLiteral(req[r].arg) \/ req[r].arg = <<>>)
        => IF req[r].arg = <<>>
           THEN req[r].resp.questions = questionsCache
           ELSE LET N == IntegerLiteralValue(req[r].arg)
                    total == Len(questionsCache)
                IN  /\ req[r].resp.questions
                         = SubSeq(questionsCache, 1, IF N < total THEN N ELSE total)
                    /\ Len(req[r].resp.questions) <= (IF N < 0 THEN 0 ELSE N)

=============================================================================
